---- MODULE Spec2Model ----
(***************************************************************************)
(* A model of the lir feature-preparation code:                            *)
(*   lir/transformers.py  InstancePairing, GaussianCdfTransformer,         *)
(*                        AbsDiffTransformer                               *)
(*   liar/util.py         Xn_to_Xy, Xy_to_Xn                               *)
(* A numpy array is a record [shape, data]: data is the array's elements   *)
(* in C (row-major) order, shape its axis lengths.  Indices are 0-based as *)
(* in the source; TLA+ sequences are 1-based, hence the "+ 1" on access.   *)
(***************************************************************************)
EXTENDS Integers, Sequences, FiniteSets, TLC

VARIABLES
    arg,             \* the arguments of the call the caller makes
    ret,             \* the outcome of the last call: a result or an exception
    ss_limit,        \* InstancePairing._ss_limit
    ds_limit,        \* InstancePairing._ds_limit
    pairing,         \* InstancePairing.pairing (attribute set by transform)
    fitted,          \* GaussianCdfTransformer: the fitted attributes exist
    mean,            \* GaussianCdfTransformer._mean
    std,             \* GaussianCdfTransformer._std
    valid_features,  \* GaussianCdfTransformer._valid_features
    population       \* the argument of the last fit (history variable)

vars == <<arg, ret, ss_limit, ds_limit, pairing, fitted, mean, std,
          valid_features, population>>

----------------------------------------------------------------------------
(* Bounds of the model *)

MaxN == 3          \* InstancePairing: at most MaxN samples

MaxRows == 3       \* GaussianCdfTransformer: at most MaxRows population rows
MantBits == 4      \* significant bits of the floating-point format modelled
MaxGroupRows == 2  \* Xn_to_Xy: at most MaxGroupRows rows per group

LimitValues == {0, 1, 2}           \* the integer values of the two limits

Labels == {0, 1, 2}                \* class labels of y

\* the datasets the sample matrices X are taken from (their leading rows)
Datasets ==
    { << <<0, 1>>, <<1, 1>>, <<2, 0>>, <<0, 3>>, <<3, 2>>, <<2, 2>> >>,
      << <<1, 0>>, <<1, 0>>, <<0, 0>>, <<2, 1>>, <<2, 1>>, <<0, 2>> >> }

----------------------------------------------------------------------------
(* numpy arrays *)

RECURSIVE Flatten(_)
Flatten(rows) ==
    IF rows = <<>> THEN <<>> ELSE Head(rows) \o Flatten(Tail(rows))

RECURSIVE Prod(_)
Prod(s) == IF s = <<>> THEN 1 ELSE Head(s) * Prod(Tail(s))

Range(s) == {s[k] : k \in DOMAIN s}

NdArray(shape, data) == [shape |-> shape, data |-> data]

ndim(A) == Len(A.shape)

\* an (n, f) matrix from its rows
Matrix(rows, f) == NdArray(<<Len(rows), f>>, Flatten(rows))

\* a 1-axis array from its elements
Vector(elems) == NdArray(<<Len(elems)>>, elems)

\* A[i, j] of a 2-axis array
At2(A, i, j) == A.data[i * A.shape[2] + j + 1]

\* A[i, :] of a 2-axis array, as a sequence
RowOf(A, i) == SubSeq(A.data, i * A.shape[2] + 1, (i + 1) * A.shape[2])

\* A[:, c] of a 2-axis array, as a sequence
ColOf(A, c) == [k \in 1..A.shape[1] |-> At2(A, k - 1, c)]

\* np.arange(n)
arange(n) == Vector([k \in 1..n |-> k - 1])

\* np.meshgrid(a, b), default indexing 'xy': two (len b, len a) arrays
meshgrid(a, b) ==
    LET nx == a.shape[1]
        ny == b.shape[1]
    IN  << NdArray(<<ny, nx>>, [k \in 1..(ny * nx) |-> a.data[((k - 1) % nx) + 1]]),
           NdArray(<<ny, nx>>, [k \in 1..(ny * nx) |-> b.data[((k - 1) \div nx) + 1]]) >>

\* np.array([A, B, ...]) of equally shaped arrays: a new leading axis
array(list) ==
    NdArray(<<Len(list)>> \o list[1].shape,
            Flatten([k \in 1..Len(list) |-> list[k].data]))

\* A.T of a 3-axis array: the axes reversed, T[a, b, c] = A[c, b, a]
T(A) ==
    LET s  == A.shape
        d2 == s[2]
        d3 == s[1]
    IN  NdArray(<<s[3], s[2], s[1]>>,
                [k \in 1..Len(A.data) |->
                    LET a == (k - 1) \div (d2 * d3)
                        b == ((k - 1) \div d3) % d2
                        c == (k - 1) % d3
                    IN  A.data[(c * s[2] + b) * s[3] + a + 1]])

\* A.reshape(-1, cols)
reshape(A, cols) == NdArray(<<Len(A.data) \div cols, cols>>, A.data)

\* np.where(mask)[0]: the indices at which mask holds, ascending
RECURSIVE whereFrom(_, _)
whereFrom(mask, k) ==
    IF k > Len(mask) THEN <<>>
    ELSE (IF mask[k] THEN <<k - 1>> ELSE <<>>) \o whereFrom(mask, k + 1)

where(mask) == whereFrom(mask, 1)

\* A[rows, :] of a 2-axis array, rows a sequence of row indices
take(A, rows) ==
    NdArray(<<Len(rows), A.shape[2]>>,
            Flatten([k \in 1..Len(rows) |-> RowOf(A, rows[k])]))

\* np.concatenate([A, B]) along axis 0
concatenate(A, B) ==
    NdArray(<<A.shape[1] + B.shape[1]>> \o Tail(A.shape), A.data \o B.data)

\* np.stack([A, B], axis=2) of two (m, f) arrays: an (m, f, 2) array
stack(A, B) ==
    NdArray(<<A.shape[1], A.shape[2], 2>>,
            [k \in 1..(2 * Len(A.data)) |->
                IF (k - 1) % 2 = 0 THEN A.data[((k - 1) \div 2) + 1]
                                   ELSE B.data[((k - 1) \div 2) + 1]])

ones(n) == Vector([k \in 1..n |-> 1])
zeros(n) == Vector([k \in 1..n |-> 0])

\* np.random.choice(a, size, replace=False): every outcome the generator
\* can produce, a sequence of size elements of a at distinct positions
choice(a, size) ==
    {s \in [1..size -> Range(a)] : \A p, q \in 1..size : p # q => s[p] # s[q]}

----------------------------------------------------------------------------
(* InstancePairing *)

None == [kind |-> "None", value |-> 0]
Balanced == [kind |-> "balanced", value |-> 0]
IntLimit(k) == [kind |-> "int", value |-> k]

NoCall == [kind |-> "NoCall"]

\* all ordered index pairs, one per row: row a*n + b is (a, b)
all_pairs(n) == reshape(T(array(meshgrid(arange(n), arange(n)))), 2)

\* y[pairing[:, 0]] == y[pairing[:, 1]]
same_source_of(pairs, y) ==
    [k \in 1..pairs.shape[1] |->
        y.data[At2(pairs, k - 1, 0) + 1] = y.data[At2(pairs, k - 1, 1) + 1]]

\* rows_same_of with <= for <: a sample is paired with itself
rows_same_selfpairs(pairs, same_source) ==
    where([k \in 1..pairs.shape[1] |->
        At2(pairs, k - 1, 0) <= At2(pairs, k - 1, 1) /\ same_source[k]])

\* pairs with different id and same source
rows_same_of(pairs, same_source) ==
    where([k \in 1..pairs.shape[1] |->
        At2(pairs, k - 1, 0) < At2(pairs, k - 1, 1) /\ same_source[k]])

\* rows_diff_of with != for <: both orders of a pair are listed
rows_diff_ordered(pairs, same_source) ==
    where([k \in 1..pairs.shape[1] |->
        At2(pairs, k - 1, 0) # At2(pairs, k - 1, 1) /\ ~same_source[k]])

\* pairs with different id and different source
rows_diff_of(pairs, same_source) ==
    where([k \in 1..pairs.shape[1] |->
        At2(pairs, k - 1, 0) < At2(pairs, k - 1, 1) /\ ~same_source[k]])

\* exceeds, off by one, and with >= for >
exceeds_off_by_one(size, limit) == size > limit + 1
exceeds_or_equals(size, limit) == size >= limit

\* rows.size > limit
exceeds(size, limit) == size > limit

\* the outcomes of the same-source subsampling
subsample_same(rows_same, limit) ==
    IF limit.kind # "None" /\ exceeds(Len(rows_same), limit.value)
    THEN choice(rows_same, limit.value)
    ELSE {rows_same}

\* effective_ds_limit with 'balanced' taken for no limit
effective_ds_limit_unbalanced(limit, rows_diff_size, rows_same_size) ==
    IF limit.kind = "int" THEN limit.value ELSE rows_diff_size

\* the effective different-source cap
effective_ds_limit(limit, rows_diff_size, rows_same_size) ==
    IF limit.kind = "None" THEN rows_diff_size
    ELSE IF limit.kind = "balanced" THEN rows_same_size
    ELSE limit.value

\* the outcomes of the different-source subsampling
subsample_diff(rows_diff, cap) ==
    IF exceeds(Len(rows_diff), cap) THEN choice(rows_diff, cap) ELSE {rows_diff}

\* paired_labels with the two label values exchanged
paired_labels_swapped(n_same, n_diff) ==
    Vector(zeros(n_same).data \o ones(n_diff).data)

\* the new labels: 1 = same source, 0 = different source
paired_labels(n_same, n_diff) ==
    Vector(ones(n_same).data \o zeros(n_diff).data)

\* pair instances by adding another dimension
paired_tensor(X, table) ==
    stack(take(X, ColOf(table, 0)), take(X, ColOf(table, 1)))

PairingInputs ==
    UNION {{[X |-> Matrix(SubSeq(D, 1, n), 2), y |-> Vector(labels)] :
                D \in Datasets, labels \in [1..n -> Labels]} :
           n \in 0..MaxN}

SameSourceLimits == {None} \cup {IntLimit(k) : k \in LimitValues}
DifferentSourceLimits == {None, Balanced} \cup {IntLimit(k) : k \in LimitValues}

\* InstancePairing(same_source_limit, different_source_limit), and the
\* caller's data
InitPairing ==
    /\ arg \in PairingInputs
    /\ ret = NoCall
    /\ ss_limit \in SameSourceLimits
    /\ ds_limit \in DifferentSourceLimits
    /\ pairing = NoCall
    /\ fitted = FALSE
    /\ mean = <<>>
    /\ std = <<>>
    /\ valid_features = <<>>
    /\ population = NoCall

\* InstancePairing.fit(X)
PairingFit == UNCHANGED vars

\* InstancePairing.transform(X, y)
PairingTransform ==
    \E pairs \in {all_pairs(arg.X.shape[1])} :
    \E same_source \in {same_source_of(pairs, arg.y)} :
    \E rows_same \in subsample_same(rows_same_of(pairs, same_source), ss_limit) :
    \E rows_diff_all \in {rows_diff_of(pairs, same_source)} :
    \E rows_diff \in subsample_diff(rows_diff_all,
            effective_ds_limit(ds_limit, Len(rows_diff_all), Len(rows_same))) :
    \E table \in {concatenate(take(pairs, rows_same), take(pairs, rows_diff))} :
        /\ pairing' = table
        /\ ret' = [kind |-> "result",
                   X |-> paired_tensor(arg.X, table),
                   y |-> paired_labels(Len(rows_same), Len(rows_diff))]
        /\ UNCHANGED <<arg, ss_limit, ds_limit, fitted, mean, std,
                       valid_features, population>>

NextPairing == PairingFit \/ PairingTransform

SpecPairing == InitPairing /\ [][NextPairing]_vars

----------------------------------------------------------------------------
(* Floating point.  numpy computes mean and std in IEEE binary64; the model *)
(* keeps the format's rules (a normalised significand of MantBits bits,     *)
(* every operation rounded to nearest, ties to even) at a narrower width.   *)
(* A float is [m, e] with value m * 2^e, and 2^(MantBits-1) <= |m| <        *)
(* 2^MantBits unless it is zero, [0, 0].  NaN is the reserved code [0, 1].  *)

RECURSIVE Pow2(_)
Pow2(k) == IF k <= 0 THEN 1 ELSE 2 * Pow2(k - 1)

Abs(v) == IF v < 0 THEN -v ELSE v

Zero == [m |-> 0, e |-> 0]
NaN == [m |-> 0, e |-> 1]

\* the number of low bits to drop from the natural number M to fit MantBits
RECURSIVE ExcessBits(_)
ExcessBits(M) == IF M < Pow2(MantBits) THEN 0 ELSE 1 + ExcessBits(M \div 2)

\* the exactly representable M * 2^E, M > 0 below 2^MantBits, normalised
RECURSIVE Normalise(_, _)
Normalise(M, E) ==
    IF M < Pow2(MantBits - 1) THEN Normalise(2 * M, E - 1) ELSE [m |-> M, e |-> E]

\* the float nearest to S * 2^E (S any integer), ties to even
Round(S, E) ==
    IF S = 0 THEN Zero
    ELSE LET sign == IF S < 0 THEN -1 ELSE 1
             M    == Abs(S)
             k    == ExcessBits(M)
         IN  IF k = 0
             THEN LET n == Normalise(M, E) IN [m |-> sign * n.m, e |-> n.e]
             ELSE LET q    == M \div Pow2(k)
                      r    == M % Pow2(k)
                      half == Pow2(k - 1)
                      up   == IF r > half \/ (r = half /\ q % 2 = 1) THEN 1 ELSE 0
                  IN  IF q + up = Pow2(MantBits)
                      THEN [m |-> sign * Pow2(MantBits - 1), e |-> E + k + 1]
                      ELSE [m |-> sign * (q + up), e |-> E + k]

\* the float of an integer
float(k) == Round(k, 0)

\* a + b
fadd(a, b) ==
    IF a = NaN \/ b = NaN THEN NaN
    ELSE LET emin == IF a.e < b.e THEN a.e ELSE b.e
         IN  Round(a.m * Pow2(a.e - emin) + b.m * Pow2(b.e - emin), emin)

\* a - b
fsub(a, b) == IF b = NaN THEN NaN ELSE fadd(a, [m |-> -b.m, e |-> b.e])

\* a * b
fmul(a, b) == IF a = NaN \/ b = NaN THEN NaN ELSE Round(a.m * b.m, a.e + b.e)

\* a / n for a count n: the quotient to MantBits + 3 further bits and a
\* sticky bit for the remainder, then rounded; 0 / 0 is NaN
fdiv(a, n) ==
    IF a = NaN \/ n = 0 THEN NaN
    ELSE LET g    == MantBits + 3
             num  == Abs(a.m) * Pow2(g)
             q    == num \div n
             st   == IF num % n = 0 THEN 0 ELSE 1
             sign == IF a.m < 0 THEN -1 ELSE 1
         IN  Round(sign * (2 * q + st), a.e - g - 1)

\* sqrt(a), a >= 0: the integer root of the significand widened to an even
\* exponent, with a sticky bit for an inexact root, then rounded
fsqrt(a) ==
    IF a = NaN THEN NaN
    ELSE IF a.m = 0 THEN Zero
    ELSE LET g == MantBits + 4 + ((a.e + MantBits) % 2)
             V == a.m * Pow2(g)
             r == CHOOSE x \in 0..Pow2(MantBits + 4) : x * x <= V /\ V < (x + 1) * (x + 1)
             st == IF r * r = V THEN 0 ELSE 1
         IN  Round(2 * r + st, ((a.e - g) \div 2) - 1)

\* a > 0 (False for NaN)
positive(a) == a # NaN /\ a.m > 0

\* np.add.reduce over a column: the elements added in order
RECURSIVE fsum(_)
fsum(col) ==
    IF col = <<>> THEN Zero
    ELSE IF Len(col) = 1 THEN col[1]
    ELSE fadd(fsum(SubSeq(col, 1, Len(col) - 1)), col[Len(col)])

----------------------------------------------------------------------------
(* GaussianCdfTransformer *)

\* np.mean(X, axis=0) for one column
col_mean(col) == fdiv(fsum(col), Len(col))

\* np.std(X, axis=0) for one column: sqrt(mean(abs(x - x.mean())**2))
col_std(col) ==
    LET mu      == col_mean(col)
        squares == [k \in 1..Len(col) |->
                       LET d == fsub(col[k], mu) IN fmul(d, d)]
    IN  fsqrt(fdiv(fsum(squares), Len(col)))

\* self._std > 0
std_positive(stds) == [c \in 1..Len(stds) |-> positive(stds[c])]

\* values[mask]: the elements at which the boolean mask holds
mask_select(values, mask) ==
    LET keep == where(mask) IN [k \in 1..Len(keep) |-> values[keep[k] + 1]]

\* scipy.stats.norm.cdf(x, loc, scale): the value of the Gaussian cumulative
\* distribution function, kept as the term it is computed from
norm_cdf(x, loc, scale) == [cdf_of |-> x, loc |-> loc, scale |-> scale]

\* X[:, self._valid_features] through norm.cdf with the fitted mean and std
cdf_columns(X, mask, means, stds) ==
    LET keep == where(mask)
    IN  NdArray(<<X.shape[1], Len(keep)>>,
                [k \in 1..(X.shape[1] * Len(keep)) |->
                    LET r == (k - 1) \div Len(keep)
                        j == ((k - 1) % Len(keep)) + 1
                    IN  norm_cdf(At2(X, r, keep[j]), means[j], stds[j])])

FloatValues == {float(14), float(8)}

\* the population matrices: two features, up to MaxRows rows
Populations ==
    UNION {{Matrix(rows, 2) : rows \in [1..n -> FloatValues \X FloatValues]} :
           n \in 0..MaxRows}

\* the arrays handed to transform: matrices of two columns, and arrays of
\* one axis, of three axes and of three columns
CdfInputs ==
    {Matrix(rows, 2) : rows \in [1..1 -> FloatValues \X FloatValues]}
    \cup {Matrix(<< <<float(14), float(14)>>, <<float(8), float(14)>> >>, 2),
          Matrix(<<>>, 2),
          Vector(<<float(14), float(8)>>),
          NdArray(<<1, 2, 1>>, <<float(14), float(8)>>),
          Matrix(<< <<float(14), float(8), float(8)>> >>, 3)}

\* the attributes fit(X) computes: mean and std of every column, the mask
\* of the columns with std > 0, and mean and std under that mask
fit_attributes(X) ==
    LET means == [c \in 1..X.shape[2] |-> col_mean(ColOf(X, c - 1))]
        stds  == [c \in 1..X.shape[2] |-> col_std(ColOf(X, c - 1))]
        mask  == std_positive(stds)
    IN  [valid_features |-> mask,
         mean |-> mask_select(means, mask),
         std |-> mask_select(stds, mask)]

\* fit_attributes, tabulated over the populations
FitTable == [P \in Populations |-> fit_attributes(P)]

\* GaussianCdfTransformer.fit(X)
DoFit(X) ==
    /\ valid_features' = FitTable[X].valid_features
    /\ mean' = FitTable[X].mean
    /\ std' = FitTable[X].std
    /\ fitted' = TRUE
    /\ population' = X
    /\ ret' = [kind |-> "self"]

\* DoTransform, but discarding the fitted mean and std once used
DoTransform_consuming(X) ==
    /\ ret' = IF ndim(X) # 2 THEN [kind |-> "AssertionError"]
              ELSE IF ~fitted THEN [kind |-> "AttributeError"]
              ELSE IF X.shape[2] # Len(valid_features) THEN [kind |-> "IndexError"]
              ELSE [kind |-> "result",
                    X |-> cdf_columns(X, valid_features, mean, std)]
    /\ mean' = <<>>
    /\ std' = <<>>
    /\ UNCHANGED <<fitted, valid_features, population>>

\* GaussianCdfTransformer.transform(X): the assert, the attribute lookup,
\* the boolean column mask (its length must be X's column count), the cdf
DoTransform(X) ==
    /\ ret' = IF ndim(X) # 2 THEN [kind |-> "AssertionError"]
              ELSE IF ~fitted THEN [kind |-> "AttributeError"]
              ELSE IF X.shape[2] # Len(valid_features) THEN [kind |-> "IndexError"]
              ELSE [kind |-> "result",
                    X |-> cdf_columns(X, valid_features, mean, std)]
    /\ UNCHANGED <<fitted, mean, std, valid_features, population>>

InitCdf ==
    /\ arg = NoCall
    /\ ret = NoCall
    /\ ss_limit = None
    /\ ds_limit = None
    /\ pairing = NoCall
    /\ fitted = FALSE
    /\ mean = <<>>
    /\ std = <<>>
    /\ valid_features = <<>>
    /\ population = NoCall

CdfFit ==
    \E P \in Populations :
        /\ DoFit(P)
        /\ arg' = [op |-> "fit", X |-> P]
        /\ UNCHANGED <<ss_limit, ds_limit, pairing>>

CdfTransform ==
    \E X \in CdfInputs :
        /\ DoTransform(X)
        /\ arg' = [op |-> "transform", X |-> X]
        /\ UNCHANGED <<ss_limit, ds_limit, pairing>>

NextCdf == CdfFit \/ CdfTransform

SpecCdf == InitCdf /\ [][NextCdf]_vars

----------------------------------------------------------------------------
(* AbsDiffTransformer *)

\* np.abs(X[:,:,0] - X[:,:,1]) of a 3-axis array
abs_diff(X) ==
    NdArray(<<X.shape[1], X.shape[2]>>,
            [k \in 1..(X.shape[1] * X.shape[2]) |->
                Abs(X.data[(k - 1) * X.shape[3] + 1] - X.data[(k - 1) * X.shape[3] + 2])])

\* abs_diff_transform without the assert on the last axis
abs_diff_transform_any_pair(X) ==
    IF ndim(X) # 3 THEN [kind |-> "AssertionError"]
    ELSE IF X.shape[3] < 2 THEN [kind |-> "IndexError"]
    ELSE [kind |-> "result", X |-> abs_diff(X)]

\* AbsDiffTransformer.transform(X)
abs_diff_transform(X) ==
    IF ndim(X) # 3 THEN [kind |-> "AssertionError"]
    ELSE IF X.shape[3] # 2 THEN [kind |-> "AssertionError"]
    ELSE [kind |-> "result", X |-> abs_diff(X)]

----------------------------------------------------------------------------
(* liar/util.py *)

\* np.concatenate(Xn) of a sequence of matrices
RECURSIVE concatenate_all(_)
concatenate_all(Xn) ==
    IF Len(Xn) = 1 THEN Xn[1]
    ELSE concatenate(concatenate_all(SubSeq(Xn, 1, Len(Xn) - 1)), Xn[Len(Xn)])

\* the elements of a set of integers, ascending
RECURSIVE SortedSeq(_)
SortedSeq(S) ==
    IF S = {} THEN <<>>
    ELSE LET least == CHOOSE x \in S : \A z \in S : x <= z
         IN  <<least>> \o SortedSeq(S \ {least})

\* np.unique(y)
unique(y) == SortedSeq(Range(y.data))

\* Xn_to_Xy(*Xn): group i contributes its rows and the label i
Xn_to_Xy(Xn) ==
    [X |-> concatenate_all(Xn),
     y |-> Vector(Flatten([i \in 1..Len(Xn) |->
                              [k \in 1..Xn[i].shape[1] |-> 1 * (i - 1)]]))]

\* group_mask with != for ==
group_mask_complement(y, yvalue) == [k \in 1..Len(y.data) |-> y.data[k] # yvalue]

\* (y == yvalue).reshape(-1)
group_mask(y, yvalue) == [k \in 1..Len(y.data) |-> y.data[k] = yvalue]

\* Xy_to_Xn(X, y)
Xy_to_Xn(X, y) ==
    LET y2 == reshape(y, 1)
    IN  IF X.shape[1] # y2.shape[1] THEN [kind |-> "AssertionError"]
        ELSE IF y2.shape[2] # 1 THEN [kind |-> "AssertionError"]
        ELSE LET y_uniq == unique(y2)
             IN  IF Len(y_uniq) # 2 THEN [kind |-> "AssertionError"]
                 ELSE [kind |-> "result",
                       Xn |-> [k \in 1..2 |->
                                 take(X, where(group_mask(y2, y_uniq[k])))]]

GroupRowValues == {<<0, 1>>, <<1, 1>>, <<2, 0>>}

\* the matrices of one group: two features, up to MaxGroupRows rows
GroupMatrices ==
    UNION {{Matrix(rows, 2) : rows \in [1..n -> GroupRowValues]} :
           n \in 0..MaxGroupRows}

\* the caller holds two grouped matrices
InitConv ==
    /\ arg \in {[A |-> A, B |-> B] : A \in GroupMatrices, B \in GroupMatrices}
    /\ ret = NoCall
    /\ ss_limit = None
    /\ ds_limit = None
    /\ pairing = NoCall
    /\ fitted = FALSE
    /\ mean = <<>>
    /\ std = <<>>
    /\ valid_features = <<>>
    /\ population = NoCall

\* X, y = Xn_to_Xy(A, B)
ConvToXy ==
    /\ \E r \in {Xn_to_Xy(<<arg.A, arg.B>>)} :
          ret' = [kind |-> "Xy", X |-> r.X, y |-> r.y]
    /\ UNCHANGED <<arg, ss_limit, ds_limit, pairing, fitted, mean, std,
                   valid_features, population>>

\* Xy_to_Xn(X, y) on what Xn_to_Xy returned
ConvToXn ==
    /\ ret.kind = "Xy"
    /\ ret' = Xy_to_Xn(ret.X, ret.y)
    /\ UNCHANGED <<arg, ss_limit, ds_limit, pairing, fitted, mean, std,
                   valid_features, population>>

NextConv == ConvToXy \/ ConvToXn

SpecConv == InitConv /\ [][NextConv]_vars

----------------------------------------------------------------------------
(* The guarded operations, each applied to the arguments the caller holds *)

AbsDiffShapes ==
    {<<2>>, <<1, 2>>, <<2, 2>>, <<0, 1, 2>>, <<1, 1, 2>>, <<1, 2, 2>>,
     <<2, 1, 2>>, <<1, 1, 1>>, <<1, 1, 3>>, <<1, 2, 1>>, <<1, 1, 1, 2>>}

AbsDiffInputs ==
    UNION {{NdArray(shape, data) : data \in [1..Prod(shape) -> {0, 1, 3}]} :
           shape \in AbsDiffShapes}

GuardInputs ==
    {[op |-> "Xy_to_Xn", X |-> Matrix(SubSeq(D, 1, n), 2), y |-> Vector(labels)] :
        D \in Datasets, n \in 0..MaxN,
        labels \in UNION {[1..k -> Labels] : k \in 0..MaxN}}
    \cup {[op |-> "AbsDiffTransformer", X |-> X] : X \in AbsDiffInputs}
    \cup {[op |-> "GaussianCdfTransformer", P |-> P, X |-> X] :
             P \in Populations, X \in CdfInputs}

InitGuards ==
    /\ arg \in GuardInputs
    /\ ret = NoCall
    /\ ss_limit = None
    /\ ds_limit = None
    /\ pairing = NoCall
    /\ fitted = FALSE
    /\ mean = <<>>
    /\ std = <<>>
    /\ valid_features = <<>>
    /\ population = NoCall

CallXyToXn ==
    /\ arg.op = "Xy_to_Xn"
    /\ ret' = Xy_to_Xn(arg.X, arg.y)
    /\ UNCHANGED <<arg, ss_limit, ds_limit, pairing, fitted, mean, std,
                   valid_features, population>>

CallAbsDiff ==
    /\ arg.op = "AbsDiffTransformer"
    /\ ret' = abs_diff_transform(arg.X)
    /\ UNCHANGED <<arg, ss_limit, ds_limit, pairing, fitted, mean, std,
                   valid_features, population>>

CallCdfFit ==
    /\ arg.op = "GaussianCdfTransformer"
    /\ DoFit(arg.P)
    /\ UNCHANGED <<arg, ss_limit, ds_limit, pairing>>

CallCdfTransform ==
    /\ arg.op = "GaussianCdfTransformer"
    /\ DoTransform(arg.X)
    /\ UNCHANGED <<arg, ss_limit, ds_limit, pairing>>

NextGuards == CallXyToXn \/ CallAbsDiff \/ CallCdfFit \/ CallCdfTransform

SpecGuards == InitGuards /\ [][NextGuards]_vars

----------------------------------------------------------------------------
(* InstancePairing: what a call is observed to have done *)

PairingDone == ret.kind = "result" /\ ret.y.shape = <<pairing.shape[1]>>

NumSamples == arg.X.shape[1]
NumFeatures == arg.X.shape[2]
NumPairs == pairing.shape[1]
First(m) == pairing.data[2 * m - 1]
Second(m) == pairing.data[2 * m]
LabelOf(i) == arg.y.data[i + 1]

IndexPairs == {p \in (0..(NumSamples - 1)) \X (0..(NumSamples - 1)) : p[1] < p[2]}
SameCandidates == {p \in IndexPairs : LabelOf(p[1]) = LabelOf(p[2])}
DiffCandidates == {p \in IndexPairs : LabelOf(p[1]) # LabelOf(p[2])}

KeptSame == {m \in 1..NumPairs : LabelOf(First(m)) = LabelOf(Second(m))}
KeptDiff == {m \in 1..NumPairs : LabelOf(First(m)) # LabelOf(Second(m))}
KeptPairs(rows) == {<<First(m), Second(m)>> : m \in rows}

Min(a, b) == IF a < b THEN a ELSE b
Choose2(k) == (k * (k - 1)) \div 2
ClassSize(c) == Cardinality({i \in 0..(NumSamples - 1) : LabelOf(i) = c})
ClassesOf == {LabelOf(i) : i \in 0..(NumSamples - 1)}

\* C1: after every transform, every row of the stored pairing table has
\* index[0] < index[1], and no unordered pair of indices appears twice.
C1_Canonical ==
    PairingDone =>
        /\ \A m \in 1..NumPairs : First(m) < Second(m)
        /\ \A m1, m2 \in 1..NumPairs :
               m1 # m2 => {First(m1), Second(m1)} # {First(m2), Second(m2)}

\* a call whose same-source subsampling drew two of three candidates
C1_Witness ==
    /\ PairingDone
    /\ ss_limit = IntLimit(2) /\ Cardinality(SameCandidates) = 3
    /\ NumPairs = 2

\* C2: with no limits and labels of exactly two classes, the same-source
\* pairs number sum C(class_size, 2) and the different-source pairs the
\* product of the class sizes; y = [0,0,1] gives [(0,1),(0,2),(1,2)] with
\* paired labels [1,0,0].
C2_Completeness ==
    (PairingDone /\ ss_limit = None /\ ds_limit = None
                 /\ Cardinality(ClassesOf) = 2) =>
        /\ \E c1, c2 \in ClassesOf :
              /\ c1 < c2
              /\ Cardinality(KeptSame) = Choose2(ClassSize(c1)) + Choose2(ClassSize(c2))
              /\ Cardinality(KeptDiff) = ClassSize(c1) * ClassSize(c2)
        /\ NumPairs = Cardinality(KeptSame) + Cardinality(KeptDiff)
        /\ arg.y.data = <<0, 0, 1>> =>
              /\ pairing = NdArray(<<3, 2>>, <<0, 1, 0, 2, 1, 2>>)
              /\ ret.y = Vector(<<1, 0, 0>>)

C2_Witness ==
    /\ PairingDone /\ ss_limit = None /\ ds_limit = None
    /\ arg.y.data = <<0, 0, 1>>
    /\ NumPairs = 3

\* C3: with same_source_limit = k, more than k same-source candidates give
\* exactly k distinct same-source pairs, all of them candidates; k or fewer
\* candidates are all kept.
C3_SameLimit ==
    (PairingDone /\ ss_limit.kind = "int") =>
        /\ KeptPairs(KeptSame) \subseteq SameCandidates
        /\ Cardinality(KeptPairs(KeptSame)) = Cardinality(KeptSame)
        /\ Cardinality(SameCandidates) > ss_limit.value =>
              Cardinality(KeptSame) = ss_limit.value
        /\ Cardinality(SameCandidates) <= ss_limit.value =>
              KeptPairs(KeptSame) = SameCandidates

C3_Witness ==
    /\ PairingDone
    /\ ss_limit = IntLimit(1)
    /\ Cardinality(SameCandidates) = 3
    /\ Cardinality(KeptSame) = 1

\* C4 as stated: in balanced mode the output has as many different-source
\* pairs as same-source pairs.
C4_BalancedEqual ==
    (PairingDone /\ ds_limit = Balanced) =>
        Cardinality(KeptDiff) = Cardinality(KeptSame)

\* C4 as amended: in balanced mode the number of different-source pairs is
\* the smaller of the number of different-source candidates and the number
\* of same-source pairs kept.
C4_BalancedCap ==
    (PairingDone /\ ds_limit = Balanced) =>
        /\ Cardinality(KeptDiff) =
               Min(Cardinality(DiffCandidates), Cardinality(KeptSame))
        /\ KeptPairs(KeptDiff) \subseteq DiffCandidates
        /\ Cardinality(KeptPairs(KeptDiff)) = Cardinality(KeptDiff)

\* balanced mode cutting two different-source candidates down to the one
\* same-source pair kept
C4_Witness ==
    /\ PairingDone /\ ds_limit = Balanced
    /\ Cardinality(KeptSame) = 1
    /\ Cardinality(DiffCandidates) = 2
    /\ Cardinality(KeptDiff) = 1

\* C6: tensor, labels and pairing table are aligned by position: member 0
\* and member 1 of pair m are rows pairing[m,0] and pairing[m,1] of X, the
\* label at m is 1 exactly when the two samples have equal labels, and
\* same-source positions precede different-source positions.
C6_Aligned ==
    PairingDone =>
        /\ ret.X.shape = <<NumPairs, NumFeatures, 2>>
        /\ Len(ret.X.data) = NumPairs * NumFeatures * 2
        /\ Len(ret.y.data) = NumPairs
        /\ \A m \in 1..NumPairs :
              /\ \A c \in 0..(NumFeatures - 1) :
                    /\ ret.X.data[((m - 1) * NumFeatures + c) * 2 + 1]
                           = At2(arg.X, First(m), c)
                    /\ ret.X.data[((m - 1) * NumFeatures + c) * 2 + 2]
                           = At2(arg.X, Second(m), c)
              /\ ret.y.data[m] = (IF m \in KeptSame THEN 1 ELSE 0)
        /\ \A m1 \in KeptSame, m2 \in KeptDiff : m1 < m2

\* a subsampled call on labels of three classes, with pairs of both kinds
C6_Witness ==
    /\ PairingDone
    /\ Cardinality(ClassesOf) = 3
    /\ ds_limit = IntLimit(2)
    /\ NumPairs = 2

NoLimitExceeded ==
    /\ ss_limit.kind = "int" => Cardinality(SameCandidates) <= ss_limit.value
    /\ ds_limit.kind = "int" => Cardinality(DiffCandidates) <= ds_limit.value
    /\ ds_limit.kind = "balanced" =>
           Cardinality(DiffCandidates) <= Cardinality(SameCandidates)

Before(m1, m2) ==
    \/ First(m1) < First(m2)
    \/ First(m1) = First(m2) /\ Second(m1) < Second(m2)

\* C10: when no limit is exceeded, a further call with the same input and
\* configuration returns the same tensor, labels and pairing table, and
\* each block lists its pairs by ascending first, then second, index.
C10_Deterministic ==
    /\ [][(PairingDone /\ NoLimitExceeded) => (ret' = ret /\ pairing' = pairing)]_vars
    /\ [](PairingDone /\ NoLimitExceeded =>
            /\ \A m1, m2 \in KeptSame : m1 < m2 => Before(m1, m2)
            /\ \A m1, m2 \in KeptDiff : m1 < m2 => Before(m1, m2)
            /\ KeptPairs(KeptSame) = SameCandidates
            /\ KeptPairs(KeptDiff) = DiffCandidates)

\* a call whose limits equal the candidate counts
C10_Witness ==
    /\ PairingDone /\ NoLimitExceeded
    /\ ss_limit = IntLimit(1) /\ Cardinality(SameCandidates) = 1
    /\ ds_limit = IntLimit(2) /\ Cardinality(DiffCandidates) = 2

----------------------------------------------------------------------------
(* Xn_to_Xy and Xy_to_Xn: the round trip *)

RoundTripDone == ret.kind \in {"result", "AssertionError"}

\* how often the feature vector row occurs among the rows of the matrix A
Occurrences(A, row) ==
    Cardinality({i \in 0..(A.shape[1] - 1) : RowOf(A, i) = row})

SameRows(A, B) ==
    /\ A.shape = B.shape
    /\ \A row \in GroupRowValues : Occurrences(A, row) = Occurrences(B, row)

\* C5 as stated: for any two grouped matrices A and B, of any row counts,
\* Xy_to_Xn(*Xn_to_Xy(A, B)) succeeds and returns the rows of A and the
\* rows of B, as multisets, in that group order.
C5_RoundTripAny ==
    RoundTripDone =>
        /\ ret.kind = "result"
        /\ SameRows(ret.Xn[1], arg.A)
        /\ SameRows(ret.Xn[2], arg.B)

\* C5 as amended: the same, for A and B of at least one row each.
C5_RoundTrip ==
    (RoundTripDone /\ arg.A.shape[1] >= 1 /\ arg.B.shape[1] >= 1) =>
        /\ ret.kind = "result"
        /\ Len(ret.Xn) = 2
        /\ SameRows(ret.Xn[1], arg.A)
        /\ SameRows(ret.Xn[2], arg.B)

\* a round trip of two groups that share a feature vector
C5_Witness ==
    /\ ret.kind = "result"
    /\ arg.A.shape[1] = 2 /\ arg.B.shape[1] = 1
    /\ RowOf(arg.A, 1) = RowOf(arg.B, 0)
    /\ RowOf(arg.A, 0) # RowOf(arg.A, 1)

----------------------------------------------------------------------------
(* The guarded operations *)

Called == ret.kind \notin {"NoCall", "self"}

NumDistinct(y) == Cardinality(Range(y.data))

\* C7 as stated: Xy_to_Xn fails with a ShapeMismatchError when X and y
\* differ in row count and with a ValueConstraintError when y has other than
\* two distinct values; AbsDiffTransformer.transform fails with a
\* ShapeMismatchError unless X has 3 axes, the last of size 2;
\* GaussianCdfTransformer.transform fails with a ShapeMismatchError unless X
\* has 2 axes; inputs that satisfy the preconditions are never rejected.
C7_NamedErrors ==
    Called =>
        /\ arg.op = "Xy_to_Xn" =>
              ret.kind = (IF arg.X.shape[1] # Len(arg.y.data) THEN "ShapeMismatchError"
                          ELSE IF NumDistinct(arg.y) # 2 THEN "ValueConstraintError"
                          ELSE "result")
        /\ arg.op = "AbsDiffTransformer" =>
              ret.kind = (IF ndim(arg.X) = 3 /\ arg.X.shape[ndim(arg.X)] = 2
                          THEN "result" ELSE "ShapeMismatchError")
        /\ arg.op = "GaussianCdfTransformer" =>
              /\ ndim(arg.X) # 2 => ret.kind = "ShapeMismatchError"
              /\ (ndim(arg.X) = 2 /\ fitted /\ arg.X.shape[2] = arg.P.shape[2]) =>
                     ret.kind = "result"

\* C7 as amended: the same rejections, each raised as an AssertionError by
\* the call that detects it, with no result returned.
C7_AssertionErrors ==
    Called =>
        /\ arg.op = "Xy_to_Xn" =>
              ret.kind = (IF arg.X.shape[1] # Len(arg.y.data) THEN "AssertionError"
                          ELSE IF NumDistinct(arg.y) # 2 THEN "AssertionError"
                          ELSE "result")
        /\ arg.op = "AbsDiffTransformer" =>
              ret.kind = (IF ndim(arg.X) = 3 /\ arg.X.shape[ndim(arg.X)] = 2
                          THEN "result" ELSE "AssertionError")
        /\ arg.op = "GaussianCdfTransformer" =>
              /\ ndim(arg.X) # 2 => ret.kind = "AssertionError"
              /\ (ndim(arg.X) = 2 /\ fitted /\ arg.X.shape[2] = arg.P.shape[2]) =>
                     ret.kind = "result"
        /\ ret.kind # "result" => DOMAIN ret = {"kind"}

\* an array of three axes whose last axis has size 3, rejected
C7_Witness ==
    /\ Called
    /\ arg.op = "AbsDiffTransformer"
    /\ arg.X.shape = <<1, 1, 3>>
    /\ ret.kind = "AssertionError"

----------------------------------------------------------------------------
(* GaussianCdfTransformer: fit and transform *)

PopulationRows == 0..(population.shape[1] - 1)

\* the feature (column c, 0-based) has the same value in every row
Constant(c) ==
    \A i, j \in PopulationRows : At2(population, i, c) = At2(population, j, c)

\* the features that vary across the rows of the population, ascending
Varying ==
    where([c \in 1..population.shape[2] |-> ~Constant(c - 1)])

\* C8: after fit(P), transform(X) on a 2-axis X with P's column count
\* returns as many rows as X has and one column per feature of P with
\* standard deviation > 0, in the original order; every feature constant
\* across the rows of P is absent; the stored mean and std have one entry
\* per retained feature.
C8_ConstantFeaturesDropped ==
    (Called /\ fitted /\ ndim(arg.X) = 2 /\ arg.X.shape[2] = population.shape[2]) =>
        /\ ret.kind = "result"
        /\ ret.X.shape = <<arg.X.shape[1], Len(Varying)>>
        /\ \A c \in 1..population.shape[2] : valid_features[c] = ~Constant(c - 1)
        /\ Len(mean) = Len(Varying)
        /\ Len(std) = Len(Varying)
        /\ \A r \in 0..(arg.X.shape[1] - 1), j \in 1..Len(Varying) :
              ret.X.data[r * Len(Varying) + j].cdf_of = At2(arg.X, r, Varying[j])

\* C9: a transform before the first fit fails and produces no output; a
\* transform never changes the fitted mean, std or mask; after every fit the
\* three fields are those of that fit's population alone, and a transform
\* uses them.
C9_Lifecycle ==
    /\ [][ret'.kind \notin {"NoCall", "self"} =>
             UNCHANGED <<fitted, mean, std, valid_features>>]_vars
    /\ []((Called /\ ~fitted) =>
             /\ ret.kind \in {"AssertionError", "AttributeError"}
             /\ DOMAIN ret = {"kind"})
    /\ [](fitted =>
             LET stds  == [c \in 1..population.shape[2] |->
                              col_std(ColOf(population, c - 1))]
                 means == [c \in 1..population.shape[2] |->
                              col_mean(ColOf(population, c - 1))]
                 kept  == where([c \in 1..Len(stds) |-> positive(stds[c])])
             IN  /\ Len(valid_features) = population.shape[2]
                 /\ where(valid_features) = kept
                 /\ mean = [j \in 1..Len(kept) |-> means[kept[j] + 1]]
                 /\ std = [j \in 1..Len(kept) |-> stds[kept[j] + 1]])
    /\ []((fitted /\ ret.kind = "result") =>
             /\ ret.X.shape = <<arg.X.shape[1], Len(mean)>>
             /\ \A r \in 0..(arg.X.shape[1] - 1), j \in 1..Len(mean) :
                   ret.X.data[r * Len(mean) + j] =
                       norm_cdf(At2(arg.X, r, where(valid_features)[j]),
                                mean[j], std[j]))

\* a transform under a fit that kept the first feature and dropped the second
C9_Witness ==
    /\ fitted /\ ret.kind = "result"
    /\ population.shape[1] = 3
    /\ valid_features = <<TRUE, FALSE>>
    /\ arg.X.shape[1] = 2

====
